---- MODULE Spec2Model ----
(***************************************************************************)
(* RobustTimer (src/source/RobustTimer.cpp, src/include/RobustTimer.hpp):  *)
(* a one-shot POSIX timer whose expiry signal is turned, by a signal       *)
(* handler that posts a semaphore, into a callback run on a per-instance   *)
(* worker thread.                                                          *)
(*                                                                         *)
(* Threads of the model: caller threads 1..NCallers, which run the public  *)
(* operations one source step at a time, and one worker thread per         *)
(* instance slot.  The timer signal is process-directed, so the kernel may *)
(* run the handler on top of any thread of the process; hframe[t] is the   *)
(* stack of handler frames on thread t, and a thread runs its own code     *)
(* only while that stack is empty.                                         *)
(***************************************************************************)
EXTENDS Integers, Sequences, FiniteSets, TLC

\* ------------------------------------------------------------------ bounds
NInst == 2          \* instance slots (objects that can exist at one time)
NCallers == 2       \* caller threads
NChan == 2          \* largest real-time signal pool SIGRTMIN..SIGRTMAX tried
MaxCalls == 4       \* public calls (create/start/stop/changeTimeout/destroy) in a run
MaxNest == 1        \* handler frames that may be stacked on one thread

\* ------------------------------------------------------------- constants
SIGRTMIN == 34
\* SIGRTMAX is read at run time (the variable sigrtmax); these are the pools tried
SigrtmaxChoices == SIGRTMIN..(SIGRTMIN + NChan - 1)
NSEC_PER_SEC == 1000000000
NoSignal == -1      \* int signal_number_ = -1

Inst == 1..NInst
Callers == 1..NCallers
Chan == SIGRTMIN..(SIGRTMIN + NChan - 1)   \* every signal number the model can name
W(i) == NCallers + i                 \* the worker thread of slot i
Threads == 1..(NCallers + NInst)
\* timeouts handed to the constructor and to changeTimeout
Timeouts == {-1, 0, NSEC_PER_SEC + 500000000}

VARIABLES
  \* --- the object's fields (RobustTimer.hpp:18-24), per slot
  life,            \* "none" | "ctor" | "alive" | "dtor"
  timeout_ns_,
  callback_,       \* TRUE iff the std::function is non-empty
  is_running_,
  semaphore_,      \* the count of sem_t semaphore_
  semState,        \* "none" | "init" | "destroyed"
  signal_number_,
  wpc,             \* worker_thread_: "none" | "wait" | "check" | "call" | "incb" | "exited"
  \* --- the kernel's POSIX timer behind timer_id_
  timerExists,     \* timer_create succeeded and timer_delete not yet called
  sev_signo,       \* the signal the timer was created with
  it_value,        \* ns until expiry, 0 = disarmed
  sigPending,      \* 0, or the arm generation whose expiry signal is queued
  \* --- statics and process state
  signal_map_,     \* [Chan -> Inst \cup {0}], 0 = no entry
  signal_mutex_,   \* 0 = free, else the thread that holds it
  sigact,          \* signals whose disposition is signalHandler
  sigrtmax,        \* the value of SIGRTMAX in this process
  \* --- threads
  cpc,             \* caller thread's position
  cobj,            \* the instance the caller's current call is on
  hframe,          \* per thread, the stack of signal-handler frames
  \* --- bookkeeping for the properties
  calls,           \* public calls begun
  curGen,          \* per slot: the name of its latest arm (or of its construction)
  ncb,             \* callback invocations begun in this lifetime
  nposts,          \* handler posts to this instance's semaphore in this lifetime
  inflight,        \* callback invocations begun and not yet returned
  hist             \* per slot: what the claims need to know about the past

objVars == <<life, timeout_ns_, callback_, is_running_, semaphore_, semState,
             signal_number_, wpc>>
tmrVars == <<timerExists, sev_signo, it_value, sigPending>>
regVars == <<signal_map_, signal_mutex_, sigact, sigrtmax>>
thrVars == <<cpc, cobj>>
auxVars == <<calls, curGen, ncb, nposts, inflight, hist>>
vars == <<objVars, tmrVars, regVars, thrVars, hframe, auxVars>>

\* ------------------------------------------------------------- helpers
Min(S) == CHOOSE x \in S : \A y \in S : x <= y

\* C++ integer division and remainder truncate toward zero
CDiv(a, b) == IF a >= 0 THEN a \div b ELSE -((-a) \div b)
CMod(a, b) == a - b * CDiv(a, b)

\* a thread runs its own code only when no handler frame is on top of it
Free(t) == hframe[t] = <<>>

\* what the claims read from the past of one instance
HistInit == [ phase    |-> "fresh", \* the public calls made on the instance since its
                                   \* construction: "fresh" none; "once" start(); then
                                   \* "again" start(), start(); "stopped" start(), stop();
                                   \* "changed" start(), changeTimeout(); "ending"
                                   \* start(), destructor; "restarted" start(), stop(),
                                   \* start(); "other" anything else
              armed    |-> FALSE,  \* the latest start()/changeTimeout() armed the timer
              cbArm    |-> 0,      \* callback invocations begun since the latest arm
              postArm  |-> 0,      \* posts of the latest arm's expiry
              quiet    |-> FALSE,  \* stop() disarmed before the latest arm's expiry was posted
              cbAfterStop |-> 0,   \* callback invocations begun after the latest stop() returned
              rearmed  |-> FALSE,  \* the latest arm replaced a pending, unfired one
              dtorArmed |-> FALSE, \* the destructor began while Running, expiry not yet fired
              cbDtor   |-> 0,      \* callback invocations begun after the destructor began
              overlap  |-> FALSE,  \* a public call began while another call was inside the instance
              eintr    |-> FALSE,  \* a signal handler interrupted the worker's sem_wait
              cbOffWorker |-> FALSE, \* a callback invocation began on another thread than the worker
              postDead |-> FALSE, \* the handler posted to the semaphore after sem_destroy
              recycled |-> FALSE, \* the slot's previous occupant was destroyed by its destructor
              semLeft  |-> FALSE, \* the slot's previous occupant went away with its semaphore
                                   \* initialised and never passed to sem_destroy
              lateStart |-> FALSE ] \* a start() found the instance Running after its timer
                                   \* had fired and the callback of that expiry had returned

\* ------------------------------------------------------------- Init
Init ==
  /\ life = [i \in Inst |-> "none"]
  /\ timeout_ns_ = [i \in Inst |-> 0]
  /\ callback_ = [i \in Inst |-> FALSE]
  /\ is_running_ = [i \in Inst |-> FALSE]
  /\ semaphore_ = [i \in Inst |-> 0]
  /\ semState = [i \in Inst |-> "none"]
  /\ signal_number_ = [i \in Inst |-> NoSignal]
  /\ wpc = [i \in Inst |-> "none"]
  /\ timerExists = [i \in Inst |-> FALSE]
  /\ sev_signo = [i \in Inst |-> NoSignal]
  /\ it_value = [i \in Inst |-> 0]
  /\ sigPending = [i \in Inst |-> 0]
  /\ signal_map_ = [s \in Chan |-> 0]
  /\ signal_mutex_ = 0
  /\ sigact = {}
  /\ sigrtmax \in SigrtmaxChoices
  /\ cpc = [t \in Callers |-> "idle"]
  /\ cobj = [t \in Callers |-> 0]
  /\ hframe = [t \in Threads |-> <<>>]
  /\ calls = 0
  /\ curGen = [i \in Inst |-> 0]
  /\ ncb = [i \in Inst |-> 0]
  /\ nposts = [i \in Inst |-> 0]
  /\ inflight = [i \in Inst |-> 0]
  /\ hist = [i \in Inst |-> HistInit]

\* caller threads that can begin a public call now
Ready == {u \in Callers : cpc[u] = "idle" /\ Free(u)}
\* thread t begins the next public call; idle caller threads are interchangeable,
\* so the lowest-numbered one is taken
CanCall(t) == t \in Ready /\ t = Min(Ready) /\ calls < MaxCalls
\* the call returns normally
Return(t) ==
  /\ cpc' = [cpc EXCEPT ![t] = "idle"]
  /\ cobj' = [cobj EXCEPT ![t] = 0]
\* the call leaves by throwing e; i is the instance it was on (0: none is left)
Throw(t, i, e) ==
  /\ cpc' = [cpc EXCEPT ![t] = e]
  /\ cobj' = [cobj EXCEPT ![t] = i]
Errors == {"InvalidArgument", "ResourceExhausted", "TimerCreationFailed", "ArmFailed"}
Goto(t, i, pc) ==
  /\ cpc' = [cpc EXCEPT ![t] = pc]
  /\ cobj' = [cobj EXCEPT ![t] = i]

\* the storage of slot i is given back: every field returns to its initial value
Forget(i) ==
  /\ life' = [life EXCEPT ![i] = "none"]
  /\ timeout_ns_' = [timeout_ns_ EXCEPT ![i] = 0]
  /\ callback_' = [callback_ EXCEPT ![i] = FALSE]
  /\ is_running_' = [is_running_ EXCEPT ![i] = FALSE]
  /\ semaphore_' = [semaphore_ EXCEPT ![i] = 0]
  /\ semState' = [semState EXCEPT ![i] = "none"]
  /\ signal_number_' = [signal_number_ EXCEPT ![i] = NoSignal]
  /\ wpc' = [wpc EXCEPT ![i] = "none"]
  /\ ncb' = [ncb EXCEPT ![i] = 0]
  /\ nposts' = [nposts EXCEPT ![i] = 0]
  /\ inflight' = [inflight EXCEPT ![i] = 0]
  /\ hist' = [hist EXCEPT ![i] = [HistInit EXCEPT !.recycled = (life[i] = "dtor"),
                                                 !.semLeft = (semState[i] = "init")]]

\* ------------------------------------------------------- constructor
\* RobustTimer.cpp:18-27: member initialisers, the null-callback check, sem_init
Construct(t, i, T, cb) ==
  /\ CanCall(t)
  /\ life[i] = "none"
  /\ i = Min({j \in Inst : life[j] = "none"})
  /\ calls' = calls + 1
  /\ IF ~cb
       THEN /\ Throw(t, 0, "InvalidArgument")
            /\ UNCHANGED <<objVars>>
       ELSE /\ life' = [life EXCEPT ![i] = "ctor"]
            /\ timeout_ns_' = [timeout_ns_ EXCEPT ![i] = T]
            /\ callback_' = [callback_ EXCEPT ![i] = TRUE]
            /\ is_running_' = [is_running_ EXCEPT ![i] = FALSE]
            /\ semaphore_' = [semaphore_ EXCEPT ![i] = 0]
            /\ semState' = [semState EXCEPT ![i] = "init"]
            /\ UNCHANGED <<signal_number_, wpc>>
            /\ Goto(t, i, "c_lock")
  /\ curGen' = [curGen EXCEPT ![i] = @ + 1]
  /\ UNCHANGED <<tmrVars, regVars, hframe, ncb, nposts, inflight, hist>>

\* RobustTimer.cpp:35: std::lock_guard lock(signal_mutex_)
CtorLock(t) ==
  /\ cpc[t] = "c_lock" /\ Free(t)
  /\ signal_mutex_ = 0
  /\ signal_mutex_' = t
  /\ cpc' = [cpc EXCEPT ![t] = "c_scan"]
  /\ UNCHANGED <<objVars, tmrVars, signal_map_, sigact, sigrtmax, cobj, hframe, auxVars>>

\* a scan that never looks whether the signal number is taken
ScanFirst(map) == SIGRTMIN

\* a scan whose loop stops one short of SIGRTMAX (signo < SIGRTMAX)
ScanShort(map) ==
  LET free == {s \in SIGRTMIN..(sigrtmax - 1) : map[s] = 0}
  IN  IF free = {} THEN NoSignal ELSE Min(free)

\* RobustTimer.cpp:36-43: the first signal number with no registry entry, or none
ScanFree(map) ==
  LET free == {s \in SIGRTMIN..sigrtmax : map[s] = 0}
  IN  IF free = {} THEN NoSignal ELSE Min(free)

\* RobustTimer.cpp:36-48: the scan, the end of the lock's scope, the check for -1
CtorScan(t) ==
  /\ cpc[t] = "c_scan" /\ Free(t)
  /\ LET i == cobj[t]
         s == ScanFree(signal_map_)
     IN  /\ signal_mutex_' = 0
         /\ IF s = NoSignal
              THEN /\ Forget(i)
                   /\ Throw(t, 0, "ResourceExhausted")
                   /\ UNCHANGED <<signal_map_, sigact>>
              ELSE /\ sigact' = sigact \cup {s}
                   /\ signal_number_' = [signal_number_ EXCEPT ![i] = s]
                   /\ signal_map_' = [signal_map_ EXCEPT ![s] = i]
                   /\ Goto(t, i, "c_create")
                   /\ UNCHANGED <<life, timeout_ns_, callback_, is_running_, semaphore_,
                                  semState, wpc, curGen, ncb, nposts, inflight, hist>>
  /\ UNCHANGED <<tmrVars, sigrtmax, hframe, calls, curGen>>

\* RobustTimer.cpp:51-56: timer_create; ok is the kernel's answer
CtorCreate(t, ok) ==
  /\ cpc[t] = "c_create" /\ Free(t)
  /\ LET i == cobj[t]
     IN  IF ok
           THEN /\ timerExists' = [timerExists EXCEPT ![i] = TRUE]
                /\ sev_signo' = [sev_signo EXCEPT ![i] = signal_number_[i]]
                /\ it_value' = [it_value EXCEPT ![i] = 0]
                /\ sigPending' = [sigPending EXCEPT ![i] = 0]
                /\ cpc' = [cpc EXCEPT ![t] = "c_thread"]
           ELSE /\ cpc' = [cpc EXCEPT ![t] = "c_flock"]
                /\ UNCHANGED tmrVars
  /\ UNCHANGED <<objVars, regVars, cobj, hframe, auxVars>>

\* RobustTimer.cpp:57: the lock taken on the timer_create failure path
CtorFailLock(t) ==
  /\ cpc[t] = "c_flock" /\ Free(t)
  /\ signal_mutex_ = 0
  /\ signal_mutex_' = t
  /\ cpc' = [cpc EXCEPT ![t] = "c_ferase"]
  /\ UNCHANGED <<objVars, tmrVars, signal_map_, sigact, sigrtmax, cobj, hframe, auxVars>>

\* RobustTimer.cpp:58-59: erase the entry, throw (the lock's scope ends)
CtorFailErase(t) ==
  /\ cpc[t] = "c_ferase" /\ Free(t)
  /\ LET i == cobj[t]
     IN  /\ signal_map_' = [signal_map_ EXCEPT ![signal_number_[i]] = 0]
         /\ signal_mutex_' = 0
         /\ Forget(i)
         /\ Throw(t, 0, "TimerCreationFailed")
  /\ UNCHANGED <<tmrVars, sigact, sigrtmax, hframe, calls, curGen>>

\* RobustTimer.cpp:63: the worker thread starts; the constructor returns
CtorThread(t) ==
  /\ cpc[t] = "c_thread" /\ Free(t)
  /\ LET i == cobj[t]
     IN  /\ wpc' = [wpc EXCEPT ![i] = "wait"]
         /\ life' = [life EXCEPT ![i] = "alive"]
         /\ Return(t)
  /\ UNCHANGED <<timeout_ns_, callback_, is_running_, semaphore_, semState, signal_number_,
                 tmrVars, regVars, hframe, auxVars>>

\* ------------------------------------------------------- armTimer / disarmTimer
\* RobustTimer.cpp:125-129: the itimerspec armTimer builds from a nanosecond count
TvSec(ns) == CDiv(ns, NSEC_PER_SEC)
TvNsec(ns) == CMod(ns, NSEC_PER_SEC)
\* timer_settime rejects (EINVAL) a negative field or tv_nsec >= 10^9
SettimeOk(ns) == TvSec(ns) >= 0 /\ TvNsec(ns) >= 0 /\ TvNsec(ns) < NSEC_PER_SEC
\* the time to expiry the kernel records; an all-zero it_value disarms
ItValue(ns) == TvSec(ns) * NSEC_PER_SEC + TvNsec(ns)

\* the bookkeeping of a new arm of instance i
NoteArm(i, replaced) ==
  /\ curGen' = [curGen EXCEPT ![i] = @ + 1]
  /\ hist' = [hist EXCEPT ![i].cbArm = 0, ![i].postArm = 0, ![i].armed = TRUE,
                          ![i].quiet = FALSE, ![i].rearmed = replaced]

\* RobustTimer.cpp:124-134: armTimer(timeout_ns_), called by thread t; the caller returns
ArmTimer(t, i, byChange) ==
  LET ns == timeout_ns_[i]
  IN  IF SettimeOk(ns)
        THEN /\ it_value' = [it_value EXCEPT ![i] = ItValue(ns)]
             /\ IF ItValue(ns) > 0
                  THEN NoteArm(i, byChange /\ it_value[i] > 0)
                  ELSE UNCHANGED <<curGen, hist>>
             /\ Return(t)
        ELSE /\ Throw(t, i, "ArmFailed")
             /\ UNCHANGED <<it_value, curGen, hist>>

\* RobustTimer.cpp:136-141: disarmTimer: an all-zero itimerspec, which is never rejected
DisarmTimer(i) == it_value' = [it_value EXCEPT ![i] = 0]

\* no other caller thread is inside a call on instance i
NoCallOn(i) == \A u \in Callers : cpc[u] # "idle" => cobj[u] # i

\* ------------------------------------------------------- start
\* the phase after a start() call, and after another call that leads to phase q
NextPhase(p, wasRunning) ==
  IF p = "fresh" THEN "once"
  ELSE IF p = "once" /\ wasRunning THEN "again"
  ELSE IF p = "stopped" /\ ~wasRunning THEN "restarted"
  ELSE "other"
PhaseAfter(p, q) == IF p = "once" THEN q ELSE "other"

\* a start() without the early return: it arms again although the timer is Running
StartRearms(t, i) ==
  /\ CanCall(t)
  /\ life[i] = "alive"
  /\ calls' = calls + 1
  /\ is_running_' = [is_running_ EXCEPT ![i] = TRUE]
  /\ Goto(t, i, "s_arm")
  /\ hist' = [hist EXCEPT ![i].phase = NextPhase(@, is_running_[i]),
                          ![i].overlap = @ \/ ~NoCallOn(i)]
  /\ UNCHANGED <<life, timeout_ns_, callback_, semaphore_, semState, signal_number_, wpc,
                 tmrVars, regVars, hframe, curGen, ncb, nposts, inflight>>

\* RobustTimer.cpp:80-82: is_running_.exchange(true), return if it was set
Start(t, i) ==
  /\ CanCall(t)
  /\ life[i] = "alive"
  /\ calls' = calls + 1
  /\ is_running_' = [is_running_ EXCEPT ![i] = TRUE]
  /\ IF is_running_[i]
       THEN /\ Return(t)
            /\ hist' = [hist EXCEPT ![i].phase = NextPhase(@, is_running_[i]),
                                    ![i].overlap = @ \/ ~NoCallOn(i),
                                    ![i].lateStart = @ \/ (hist[i].cbArm >= 1 /\ inflight[i] = 0
                                                         /\ it_value[i] = 0)]
       ELSE /\ Goto(t, i, "s_arm")
            /\ hist' = [hist EXCEPT ![i].phase = NextPhase(@, is_running_[i]), ![i].cbAfterStop = -1,
                                    ![i].overlap = @ \/ ~NoCallOn(i),
                                    ![i].cbArm = 0, ![i].postArm = 0, ![i].armed = FALSE,
                                    ![i].quiet = FALSE, ![i].rearmed = FALSE]
  /\ UNCHANGED <<life, timeout_ns_, callback_, semaphore_, semState, signal_number_, wpc,
                 tmrVars, regVars, hframe, curGen, ncb, nposts, inflight>>

\* RobustTimer.cpp:84: armTimer(timeout_ns_)
StartArm(t) ==
  /\ cpc[t] = "s_arm" /\ Free(t)
  /\ ArmTimer(t, cobj[t], FALSE)
  /\ UNCHANGED <<objVars, timerExists, sev_signo, sigPending, regVars, hframe,
                 calls, ncb, nposts, inflight>>

\* ------------------------------------------------------- stop
\* RobustTimer.cpp:88-90: is_running_.exchange(false), return if it was clear
Stop(t, i) ==
  /\ CanCall(t)
  /\ life[i] = "alive"
  /\ calls' = calls + 1
  /\ is_running_' = [is_running_ EXCEPT ![i] = FALSE]
  /\ hist' = [hist EXCEPT ![i].phase = PhaseAfter(@, "stopped"),
                          ![i].overlap = @ \/ ~NoCallOn(i)]
  /\ IF is_running_[i]
       THEN Goto(t, i, "p_disarm")
       ELSE Return(t)
  /\ UNCHANGED <<life, timeout_ns_, callback_, semaphore_, semState, signal_number_, wpc,
                 tmrVars, regVars, hframe, curGen, ncb, nposts, inflight>>

\* RobustTimer.cpp:92: disarmTimer()
StopDisarm(t) ==
  /\ cpc[t] = "p_disarm" /\ Free(t)
  /\ LET i == cobj[t]
     IN  /\ DisarmTimer(i)
         /\ hist' = [hist EXCEPT ![i].quiet = (hist[i].armed /\ hist[i].postArm = 0),
                                 ![i].cbAfterStop = 0]
  /\ Return(t)
  /\ UNCHANGED <<objVars, timerExists, sev_signo, sigPending, regVars, hframe,
                 calls, curGen, ncb, nposts, inflight>>

\* ------------------------------------------------------- changeTimeout
\* RobustTimer.cpp:96-97: timeout_ns_ = new_timeout_ns; read is_running_
ChangeTimeout(t, i, d) ==
  /\ CanCall(t)
  /\ life[i] = "alive"
  /\ calls' = calls + 1
  /\ timeout_ns_' = [timeout_ns_ EXCEPT ![i] = d]
  /\ hist' = [hist EXCEPT ![i].phase = PhaseAfter(@, "changed"), ![i].cbAfterStop = -1,
                          ![i].overlap = @ \/ ~NoCallOn(i)]
  /\ IF is_running_[i]
       THEN Goto(t, i, "t_arm")
       ELSE Return(t)
  /\ UNCHANGED <<life, callback_, is_running_, semaphore_, semState, signal_number_, wpc,
                 tmrVars, regVars, hframe, curGen, ncb, nposts, inflight>>

\* RobustTimer.cpp:98: armTimer(timeout_ns_)
ChangeArm(t) ==
  /\ cpc[t] = "t_arm" /\ Free(t)
  /\ ArmTimer(t, cobj[t], TRUE)
  /\ UNCHANGED <<objVars, timerExists, sev_signo, sigPending, regVars, hframe,
                 calls, ncb, nposts, inflight>>

\* ------------------------------------------------------- destructor
\* RobustTimer.cpp:67 with 88-90: the destructor begins with stop()'s exchange
Destroy(t, i) ==
  /\ CanCall(t)
  /\ life[i] = "alive"
  /\ NoCallOn(i)
  /\ calls' = calls + 1
  /\ life' = [life EXCEPT ![i] = "dtor"]
  /\ is_running_' = [is_running_ EXCEPT ![i] = FALSE]
  /\ hist' = [hist EXCEPT ![i].phase = PhaseAfter(@, "ending"),
                          ![i].dtorArmed = (is_running_[i] /\ it_value[i] > 0)]
  /\ Goto(t, i, IF is_running_[i] THEN "d_disarm" ELSE "d_delete")
  /\ UNCHANGED <<timeout_ns_, callback_, semaphore_, semState, signal_number_, wpc,
                 tmrVars, regVars, hframe, curGen, ncb, nposts, inflight>>

\* RobustTimer.cpp:67 with 92: stop()'s disarmTimer()
DtorDisarm(t) ==
  /\ cpc[t] = "d_disarm" /\ Free(t)
  /\ LET i == cobj[t]
     IN  /\ DisarmTimer(i)
         /\ hist' = [hist EXCEPT ![i].quiet = (hist[i].armed /\ hist[i].postArm = 0),
                                 ![i].cbAfterStop = 0]
  /\ cpc' = [cpc EXCEPT ![t] = "d_delete"]
  /\ UNCHANGED <<objVars, timerExists, sev_signo, sigPending, regVars, cobj, hframe,
                 calls, curGen, ncb, nposts, inflight>>

\* RobustTimer.cpp:68: timer_delete; the kernel drops the timer and its queued signal
DtorDelete(t) ==
  /\ cpc[t] = "d_delete" /\ Free(t)
  /\ LET i == cobj[t]
     IN  /\ timerExists' = [timerExists EXCEPT ![i] = FALSE]
         /\ sev_signo' = [sev_signo EXCEPT ![i] = NoSignal]
         /\ it_value' = [it_value EXCEPT ![i] = 0]
         /\ sigPending' = [sigPending EXCEPT ![i] = 0]
  /\ cpc' = [cpc EXCEPT ![t] = "d_post"]
  /\ UNCHANGED <<objVars, regVars, cobj, hframe, auxVars>>

\* RobustTimer.cpp:69: sem_post, the wake that lets the worker leave
DtorPost(t) ==
  /\ cpc[t] = "d_post" /\ Free(t)
  /\ semaphore_' = [semaphore_ EXCEPT ![cobj[t]] = @ + 1]
  /\ cpc' = [cpc EXCEPT ![t] = "d_join"]
  /\ UNCHANGED <<life, timeout_ns_, callback_, is_running_, semState, signal_number_, wpc,
                 tmrVars, regVars, cobj, hframe, auxVars>>

\* a destructor that does not wait for the worker before it goes on
DtorNoJoin(t) ==
  /\ cpc[t] = "d_join" /\ Free(t)
  /\ semState' = [semState EXCEPT ![cobj[t]] = "destroyed"]
  /\ cpc' = [cpc EXCEPT ![t] = "d_lock"]
  /\ UNCHANGED <<life, timeout_ns_, callback_, is_running_, semaphore_, signal_number_, wpc,
                 tmrVars, regVars, cobj, hframe, auxVars>>

\* RobustTimer.cpp:70-73: join the worker, then sem_destroy
DtorJoin(t) ==
  /\ cpc[t] = "d_join" /\ Free(t)
  /\ wpc[cobj[t]] = "exited"
  /\ semState' = [semState EXCEPT ![cobj[t]] = "destroyed"]
  /\ cpc' = [cpc EXCEPT ![t] = "d_lock"]
  /\ UNCHANGED <<life, timeout_ns_, callback_, is_running_, semaphore_, signal_number_, wpc,
                 tmrVars, regVars, cobj, hframe, auxVars>>

\* RobustTimer.cpp:75: std::lock_guard lock(signal_mutex_)
DtorLock(t) ==
  /\ cpc[t] = "d_lock" /\ Free(t)
  /\ signal_mutex_ = 0
  /\ signal_mutex_' = t
  /\ cpc' = [cpc EXCEPT ![t] = "d_erase"]
  /\ UNCHANGED <<objVars, tmrVars, signal_map_, sigact, sigrtmax, cobj, hframe, auxVars>>

\* RobustTimer.cpp:76-77: erase the entry; the lock's scope and the object end
DtorErase(t) ==
  /\ cpc[t] = "d_erase" /\ Free(t)
  /\ LET i == cobj[t]
     IN  /\ signal_map_' = [signal_map_ EXCEPT ![signal_number_[i]] = 0]
         /\ signal_mutex_' = 0
         /\ Forget(i)
         /\ Return(t)
  /\ UNCHANGED <<tmrVars, sigact, sigrtmax, hframe, calls, curGen>>

\* ------------------------------------------------------- worker thread
\* a worker whose wait returns on a positive count without taking the wake off it
WorkerWakeKeeps(i) ==
  /\ wpc[i] = "wait" /\ Free(W(i))
  /\ semaphore_[i] > 0
  /\ wpc' = [wpc EXCEPT ![i] = "check"]
  /\ UNCHANGED <<life, timeout_ns_, callback_, is_running_, semaphore_, semState, signal_number_,
                 tmrVars, regVars, thrVars, hframe, auxVars>>

\* RobustTimer.cpp:112: sem_wait returns after taking one unit of the count
WorkerWake(i) ==
  /\ wpc[i] = "wait" /\ Free(W(i))
  /\ semaphore_[i] > 0
  /\ semaphore_' = [semaphore_ EXCEPT ![i] = @ - 1]
  /\ wpc' = [wpc EXCEPT ![i] = "check"]
  /\ UNCHANGED <<life, timeout_ns_, callback_, is_running_, semState, signal_number_,
                 tmrVars, regVars, thrVars, hframe, auxVars>>

\* RobustTimer.cpp:114-118: where the worker goes after sem_wait has returned
AfterWait(running, cb) ==
  IF ~running THEN "exited" ELSE IF cb THEN "call" ELSE "wait"

\* RobustTimer.cpp:114-118: the test of is_running_ (break) and of callback_
WorkerCheck(i) ==
  /\ wpc[i] = "check" /\ Free(W(i))
  /\ wpc' = [wpc EXCEPT ![i] = AfterWait(is_running_[i], callback_[i])]
  /\ UNCHANGED <<life, timeout_ns_, callback_, is_running_, semaphore_, semState,
                 signal_number_, tmrVars, regVars, thrVars, hframe, auxVars>>

\* the bookkeeping of a callback invocation that begins on thread t for instance i
NoteCallback(i, t) ==
  /\ ncb' = [ncb EXCEPT ![i] = @ + 1]
  /\ inflight' = [inflight EXCEPT ![i] = @ + 1]
  /\ hist' = [hist EXCEPT ![i].cbArm = @ + 1,
                          ![i].cbAfterStop = IF @ >= 0 THEN @ + 1 ELSE @,
                          ![i].cbDtor = IF life[i] = "dtor" THEN @ + 1 ELSE @,
                          ![i].cbOffWorker = @ \/ t # W(i)]

\* RobustTimer.cpp:119: callback_() is entered
WorkerCall(i) ==
  /\ wpc[i] = "call" /\ Free(W(i))
  /\ wpc' = [wpc EXCEPT ![i] = "incb"]
  /\ NoteCallback(i, W(i))
  /\ UNCHANGED <<life, timeout_ns_, callback_, is_running_, semaphore_, semState,
                 signal_number_, tmrVars, regVars, thrVars, hframe, calls,
                 curGen, nposts>>

\* a worker that marks the timer stopped once the callback of its expiry has run
WorkerReturnStops(i) ==
  /\ wpc[i] = "incb" /\ Free(W(i))
  /\ wpc' = [wpc EXCEPT ![i] = "wait"]
  /\ inflight' = [inflight EXCEPT ![i] = @ - 1]
  /\ is_running_' = [is_running_ EXCEPT ![i] = FALSE]
  /\ UNCHANGED <<life, timeout_ns_, callback_, semaphore_, semState,
                 signal_number_, tmrVars, regVars, thrVars, hframe, calls,
                 curGen, ncb, nposts, hist>>

\* RobustTimer.cpp:119-120: callback_() returns; the loop goes back to sem_wait
WorkerReturn(i) ==
  /\ wpc[i] = "incb" /\ Free(W(i))
  /\ wpc' = [wpc EXCEPT ![i] = "wait"]
  /\ inflight' = [inflight EXCEPT ![i] = @ - 1]
  /\ UNCHANGED <<life, timeout_ns_, callback_, is_running_, semaphore_, semState,
                 signal_number_, tmrVars, regVars, thrVars, hframe, calls,
                 curGen, ncb, nposts, hist>>

\* ------------------------------------------------------- the kernel's timer and signal
\* the one-shot timer (RobustTimer.cpp:128-129) expires: it is disarmed and its
\* signal is queued (one queued signal per timer, further expiries are overruns)
TimerExpire(i) ==
  /\ timerExists[i] /\ it_value[i] > 0
  /\ it_value' = [it_value EXCEPT ![i] = 0]
  /\ sigPending' = [sigPending EXCEPT ![i] = IF @ = 0 THEN curGen[i] ELSE @]
  /\ UNCHANGED <<objVars, timerExists, sev_signo, regVars, thrVars, hframe, auxVars>>

\* thread t exists and can take a signal: a caller thread, or a started worker
ThreadLives(t) ==
  \/ t \in Callers
  \/ \E j \in Inst : t = W(j) /\ wpc[j] \in {"wait", "check", "call", "incb"}

\* thread t is a worker blocked inside sem_wait (RobustTimer.cpp:112)
BlockedInWait(t) ==
  \E j \in Inst : t = W(j) /\ wpc[j] = "wait" /\ semaphore_[j] = 0 /\ hframe[t] = <<>>

\* the kernel delivers the queued signal of timer i to thread t: signalHandler
\* (installed without SA_RESTART, RobustTimer.cpp:31) starts on top of t
Deliver(i, t) ==
  /\ sigPending[i] # 0
  /\ sev_signo[i] \in sigact
  /\ ThreadLives(t)
  /\ Len(hframe[t]) < MaxNest
  /\ \A k \in 1..Len(hframe[t]) : hframe[t][k].signo # sev_signo[i]
  /\ hframe' = [hframe EXCEPT ![t] = Append(@, [signo |-> sev_signo[i],
                                                src |-> i,
                                                gen |-> sigPending[i],
                                                pc |-> "lock",
                                                eintr |-> BlockedInWait(t)])]
  /\ sigPending' = [sigPending EXCEPT ![i] = 0]
  /\ hist' = [j \in Inst |-> IF t = W(j) /\ BlockedInWait(t)
                                THEN [hist[j] EXCEPT !.eintr = TRUE] ELSE hist[j]]
  /\ UNCHANGED <<objVars, timerExists, sev_signo, it_value, regVars, thrVars,
                 calls, curGen, ncb, nposts, inflight>>

Top(t) == hframe[t][Len(hframe[t])]
Pop(t) == SubSeq(hframe[t], 1, Len(hframe[t]) - 1)

\* RobustTimer.cpp:103: the handler's std::lock_guard lock(signal_mutex_)
HandlerLock(t) ==
  /\ hframe[t] # <<>>
  /\ Top(t).pc = "lock"
  /\ signal_mutex_ = 0
  /\ signal_mutex_' = t
  /\ hframe' = [hframe EXCEPT ![t][Len(hframe[t])].pc = "post"]
  /\ UNCHANGED <<objVars, tmrVars, signal_map_, sigact, sigrtmax, thrVars, auxVars>>

\* RobustTimer.cpp:104-105: signal_map_.find(signo); 0 = no entry (or a null pointer)
Lookup(signo) == signal_map_[signo]

\* a handler that runs the callback itself instead of posting the semaphore
HandlerInvokes(j, t, f) ==
  /\ NoteCallback(j, t)
  /\ UNCHANGED <<semaphore_, nposts>>

\* RobustTimer.cpp:106: what the handler does to the instance it found
HandlerWake(j, t, f) ==
  /\ IF semState[j] = "init"
       THEN semaphore_' = [semaphore_ EXCEPT ![j] = @ + 1]
       ELSE UNCHANGED semaphore_
  /\ nposts' = [nposts EXCEPT ![j] = @ + 1]
  /\ hist' = [hist EXCEPT ![j].postArm = IF f.src = j /\ f.gen = curGen[j] THEN @ + 1 ELSE @,
                          ![j].postDead = @ \/ semState[j] # "init"]
  /\ UNCHANGED <<ncb, inflight>>

\* RobustTimer.cpp:104-108: lookup, sem_post, unlock, return from the handler; a
\* sem_wait that the handler interrupted returns EINTR without taking a unit
HandlerPost(t) ==
  /\ hframe[t] # <<>>
  /\ Top(t).pc = "post"
  /\ LET j == Lookup(Top(t).signo)
     IN  IF j # 0
           THEN HandlerWake(j, t, Top(t))
           ELSE UNCHANGED <<semaphore_, nposts, hist, ncb, inflight>>
  /\ signal_mutex_' = 0
  /\ hframe' = [hframe EXCEPT ![t] = Pop(t)]
  /\ IF Top(t).eintr
       THEN wpc' = [wpc EXCEPT ![t - NCallers] = "check"]
       ELSE UNCHANGED wpc
  /\ UNCHANGED <<life, timeout_ns_, callback_, is_running_, semState, signal_number_,
                 tmrVars, signal_map_, sigact, sigrtmax, thrVars, calls, curGen>>

\* an exception leaves the call: the thread is back in its caller's code
Unwind(t) ==
  /\ cpc[t] \in Errors /\ Free(t)
  /\ Return(t)
  /\ UNCHANGED <<objVars, tmrVars, regVars, hframe, auxVars>>

\* ------------------------------------------------------- specification
Next ==
  \/ \E t \in Callers, i \in Inst, T \in Timeouts, cb \in BOOLEAN : Construct(t, i, T, cb)
  \/ \E t \in Callers : CtorLock(t)
  \/ \E t \in Callers : CtorScan(t)
  \/ \E t \in Callers, ok \in BOOLEAN : CtorCreate(t, ok)
  \/ \E t \in Callers : CtorFailLock(t)
  \/ \E t \in Callers : CtorFailErase(t)
  \/ \E t \in Callers : CtorThread(t)
  \/ \E t \in Callers, i \in Inst : Start(t, i)
  \/ \E t \in Callers : StartArm(t)
  \/ \E t \in Callers, i \in Inst : Stop(t, i)
  \/ \E t \in Callers : StopDisarm(t)
  \/ \E t \in Callers, i \in Inst, d \in Timeouts : ChangeTimeout(t, i, d)
  \/ \E t \in Callers : ChangeArm(t)
  \/ \E t \in Callers, i \in Inst : Destroy(t, i)
  \/ \E t \in Callers : DtorDisarm(t)
  \/ \E t \in Callers : DtorDelete(t)
  \/ \E t \in Callers : DtorPost(t)
  \/ \E t \in Callers : DtorJoin(t)
  \/ \E t \in Callers : DtorLock(t)
  \/ \E t \in Callers : DtorErase(t)
  \/ \E t \in Callers : Unwind(t)
  \/ \E i \in Inst : WorkerWake(i)
  \/ \E i \in Inst : WorkerCheck(i)
  \/ \E i \in Inst : WorkerCall(i)
  \/ \E i \in Inst : WorkerReturn(i)
  \/ \E i \in Inst : TimerExpire(i)
  \/ \E i \in Inst, t \in Threads : Deliver(i, t)
  \/ \E t \in Threads : HandlerLock(t)
  \/ \E t \in Threads : HandlerPost(t)

Spec == Init /\ [][Next]_vars

\* ------------------------------------------------------- constructed timers
\* The state right after n constructors RobustTimer(T, callback) have returned in a
\* fresh process (RobustTimer.cpp:18-64): slot i holds the i-th signal number, its
\* timer exists and is disarmed, its worker is about to block in sem_wait.  A
\* second timer built beforehand is charged one call of MaxCalls.
InitOne ==
  \E n \in 1..Min({NInst, NChan}) :
  /\ life = [i \in Inst |-> IF i <= n THEN "alive" ELSE "none"]
  /\ \E T \in Timeouts : timeout_ns_ = [i \in Inst |-> IF i <= n THEN T ELSE 0]
  /\ callback_ = [i \in Inst |-> i <= n]
  /\ is_running_ = [i \in Inst |-> FALSE]
  /\ semaphore_ = [i \in Inst |-> 0]
  /\ semState = [i \in Inst |-> IF i <= n THEN "init" ELSE "none"]
  /\ signal_number_ = [i \in Inst |-> IF i <= n THEN SIGRTMIN + i - 1 ELSE NoSignal]
  /\ wpc = [i \in Inst |-> IF i <= n THEN "wait" ELSE "none"]
  /\ timerExists = [i \in Inst |-> i <= n]
  /\ sev_signo = [i \in Inst |-> IF i <= n THEN SIGRTMIN + i - 1 ELSE NoSignal]
  /\ it_value = [i \in Inst |-> 0]
  /\ sigPending = [i \in Inst |-> 0]
  /\ signal_map_ = [s \in Chan |-> IF s - SIGRTMIN + 1 <= n THEN s - SIGRTMIN + 1 ELSE 0]
  /\ signal_mutex_ = 0
  /\ sigact = {SIGRTMIN + i - 1 : i \in 1..n}
  /\ sigrtmax = SIGRTMIN + NChan - 1
  /\ cpc = [t \in Callers |-> "idle"]
  /\ cobj = [t \in Callers |-> 0]
  /\ hframe = [t \in Threads |-> <<>>]
  /\ calls = n - 1
  /\ curGen = [i \in Inst |-> IF i <= n THEN 1 ELSE 0]
  /\ ncb = [i \in Inst |-> 0]
  /\ nposts = [i \in Inst |-> 0]
  /\ inflight = [i \in Inst |-> 0]
  /\ hist = [i \in Inst |-> HistInit]

\* the calls on a constructed timer, its worker, its kernel timer and the handler
NextOne ==
  \/ \E t \in Callers, i \in Inst : Start(t, i)
  \/ \E t \in Callers : StartArm(t)
  \/ \E t \in Callers, i \in Inst : Stop(t, i)
  \/ \E t \in Callers : StopDisarm(t)
  \/ \E t \in Callers, i \in Inst, d \in Timeouts : ChangeTimeout(t, i, d)
  \/ \E t \in Callers : ChangeArm(t)
  \/ \E t \in Callers, i \in Inst : Destroy(t, i)
  \/ \E t \in Callers : DtorDisarm(t)
  \/ \E t \in Callers : DtorDelete(t)
  \/ \E t \in Callers : DtorPost(t)
  \/ \E t \in Callers : DtorJoin(t)
  \/ \E t \in Callers : DtorLock(t)
  \/ \E t \in Callers : DtorErase(t)
  \/ \E t \in Callers : Unwind(t)
  \/ \E i \in Inst : WorkerWake(i)
  \/ \E i \in Inst : WorkerCheck(i)
  \/ \E i \in Inst : WorkerCall(i)
  \/ \E i \in Inst : WorkerReturn(i)
  \/ \E i \in Inst : TimerExpire(i)
  \/ \E i \in Inst, t \in Threads : Deliver(i, t)
  \/ \E t \in Threads : HandlerLock(t)
  \/ \E t \in Threads : HandlerPost(t)

SpecOne == InitOne /\ [][NextOne]_vars

\* ======================================================= the claims
\* thread t's handler waits for signal_mutex_ while t itself holds it: it waits for ever
HandlerStuck(t) == hframe[t] # <<>> /\ Top(t).pc = "lock" /\ signal_mutex_ = t

\* thread t is inside a call on instance i
InCall(t, i) == t \in Callers /\ cpc[t] # "idle" /\ cobj[t] = i

\* C1: a freshly constructed timer with a valid timeout, on which start() was called
\* and nothing else since, has its callback invoked exactly once: the handler that
\* carries its expiry is never stuck for ever before it posts, and no second
\* invocation follows from the single arm.
C1_ExactlyOnce ==
  \A i \in Inst : hist[i].phase = "once" /\ timeout_ns_[i] > 0 =>
      /\ ncb[i] <= 1
      /\ \A t \in Threads : ~(HandlerStuck(t) /\ Top(t).src = i)

\* C2: on a fresh timer, start() and then a stop() that disarmed before the expiry
\* was posted to the semaphore leave the callback never invoked; and whenever stop()
\* has returned, at most one invocation begins after it (until the next
\* start()/changeTimeout()).  Calls on the instance do not overlap.
C2_StopSuppresses ==
  \A i \in Inst : life[i] = "alive" /\ ~hist[i].overlap =>
      /\ hist[i].phase = "stopped" /\ hist[i].quiet => ncb[i] = 0
      /\ hist[i].cbAfterStop <= 1

\* C3: the signal handler never waits for signal_mutex_ while the thread it
\* interrupted is the one holding it (a wait that cannot end).
C3_HandlerNeverSelfBlocks ==
  \A t \in Threads : ~HandlerStuck(t)

\* C7: on a fresh timer, start() and then a changeTimeout(d), d valid, that re-armed
\* the timer before its expiry fired lead to at most one callback invocation, begun
\* only after the new arm's expiry was posted, and that expiry's handler is never
\* stuck for ever.  Calls on the instance do not overlap.
C7_RearmFiresOnce ==
  \A i \in Inst : life[i] = "alive" /\ ~hist[i].overlap
                  /\ hist[i].phase = "changed" /\ hist[i].rearmed =>
      /\ ncb[i] <= 1
      /\ ncb[i] <= hist[i].postArm
      /\ \A t \in Threads : ~(HandlerStuck(t) /\ Top(t).src = i)

\* C9: on a fresh timer, start() and then the destructor, begun while the expiry is
\* scheduled and has not fired: no callback invocation begins once the destructor has
\* begun, and the destructor's thread is never stuck for ever in a handler.
C9_NoCallbackAfterDestroy ==
  \A i \in Inst : hist[i].phase = "ending" /\ hist[i].dtorArmed =>
      /\ hist[i].cbDtor = 0
      /\ \A t \in Threads : InCall(t, i) => ~HandlerStuck(t)

\* the live instances that hold signal number s
Owners(s) == {i \in Inst : life[i] # "none" /\ signal_number_[i] = s}

\* C4: a signal number is in the registry iff exactly one live instance owns it, the
\* registry maps it to that instance, every constructed instance is registered
\* under its own number, and each kernel timer delivers on the number its instance
\* reserved, which no other timer uses.
C4_RegistryOwnership ==
  /\ \A s \in Chan : Owners(s) = IF signal_map_[s] = 0 THEN {} ELSE {signal_map_[s]}
  /\ \A i \in Inst : life[i] = "alive" =>
        signal_number_[i] \in SIGRTMIN..sigrtmax /\ signal_map_[signal_number_[i]] = i
  /\ \A i \in Inst : timerExists[i] =>
        sev_signo[i] = signal_number_[i] /\ signal_map_[sev_signo[i]] = i
  /\ \A i, j \in Inst : i # j /\ timerExists[i] /\ timerExists[j] => sev_signo[i] # sev_signo[j]

\* two constructed instances at once, each with its timer
C4_Witness ==
  \E i, j \in Inst : i # j /\ life[i] = "alive" /\ life[j] = "alive"
                     /\ timerExists[i] /\ timerExists[j]

\* the signal numbers held by live instances other than i
HeldByOthers(i) ==
  {s \in SIGRTMIN..sigrtmax : \E j \in Inst : j # i /\ life[j] # "none" /\ signal_number_[j] = s}

\* C5: when a constructor scans the pool while live instances hold every number of
\* it, the construction fails with the resource-exhausted error and leaves no
\* instance and no registry entry; when a number is free (for one, after a holder
\* was destroyed), the scan obtains a free number and the construction goes on.
C5_PoolExhaustion ==
  [][\A t \in Callers : cpc[t] = "c_scan" /\ cpc'[t] # "c_scan" =>
        LET i == cobj[t]
        IN  IF HeldByOthers(i) = SIGRTMIN..sigrtmax
              THEN /\ cpc'[t] = "ResourceExhausted"
                   /\ life'[i] = "none"
                   /\ signal_map_' = signal_map_
              ELSE /\ cpc'[t] = "c_create"
                   /\ life'[i] = "ctor"
                   /\ signal_number_'[i] \in (SIGRTMIN..sigrtmax) \ HeldByOthers(i)
                   /\ signal_map_'[signal_number_'[i]] = i]_vars

\* one constructor has failed for exhaustion and, the holder having been destroyed
\* since, another one has obtained the only number of the pool
C5_Witness ==
  /\ sigrtmax = SIGRTMIN
  /\ \E t, u \in Callers : /\ cpc[t] = "ResourceExhausted"
                           /\ cpc[u] = "c_create"
                           /\ hist[cobj[u]].recycled
                           /\ signal_number_[cobj[u]] = SIGRTMIN

C8_StartWhileRunningIsNoop ==
  [][\A t \in Callers, i \in Inst : Start(t, i) /\ is_running_[i] =>
        /\ UNCHANGED <<objVars, tmrVars, regVars, curGen, ncb, nposts>>
        /\ cpc'[t] = "idle"]_vars

\* a second start() has returned on a Running timer whose expiry is still pending
C8_Witness ==
  \E i \in Inst : hist[i].phase = "again" /\ is_running_[i] /\ it_value[i] > 0
                  /\ \A t \in Callers : cpc[t] = "idle"

\* C10: at most one invocation of an instance's callback is in flight, it is the
\* worker thread that is inside it, and no invocation ever began on another thread
\* (the handler's included), whatever expiries are posted meanwhile.
C10_CallbackOnWorkerOnly ==
  \A i \in Inst :
    /\ inflight[i] <= 1
    /\ inflight[i] = 1 <=> wpc[i] = "incb"
    /\ ~hist[i].cbOffWorker

\* a second expiry is posted while the callback of the first is still executing
C10_Witness ==
  \E i \in Inst : wpc[i] = "incb" /\ nposts[i] >= 2 /\ semaphore_[i] >= 1

\* C11: a constructor that has thrown leaves nothing behind: no registry entry for
\* the instance that was not built, no worker thread, no kernel timer, and the
\* semaphore it had initialised has been passed to sem_destroy.
C11_FailedCtorReleasesAll ==
  \A i \in Inst :
    /\ ~hist[i].semLeft
    /\ life[i] = "none" =>
         /\ \A s \in Chan : signal_map_[s] # i
         /\ wpc[i] = "none"
         /\ ~timerExists[i]

\* C12: the worker thread of a constructed instance whose destructor has not begun
\* has not exited: woken while is_running_ reads false it blocks again in sem_wait.
C12_WorkerLivesUntilTeardown ==
  \A i \in Inst : life[i] = "alive" => wpc[i] # "exited"

\* C13: whenever no call is inside a constructed instance, its kernel timer has a
\* pending expiry only if is_running_ reads true.
C13_ArmedOnlyWhenRunning ==
  \A i \in Inst : life[i] = "alive" /\ NoCallOn(i) /\ ~is_running_[i] => it_value[i] = 0

\* C14: a destructor that has begun can always finish: while it is in progress no
\* thread waits in the handler for a signal_mutex_ it holds itself, a wait after
\* which the destructor's own lock (or its return) can never come.
C14_DestructorCanFinish ==
  \A i \in Inst : life[i] = "dtor" => \A t \in Threads : ~HandlerStuck(t)

\* C15: the handler never resolves a signal number to an instance and posts to its
\* semaphore after the destructor has passed that semaphore to sem_destroy.
C15_NoPostAfterSemDestroy ==
  \A i \in Inst : ~hist[i].postDead

\* C16: the registry maps a signal number to an instance under construction only
\* once that instance's kernel timer has been created.
C16_EntryOnlyAfterTimerCreate ==
  \A s \in Chan : signal_map_[s] # 0 /\ life[signal_map_[s]] = "ctor" =>
      timerExists[signal_map_[s]]

\* C17: over the lifetime of an instance, the callback invocations begun never
\* outnumber the expiries the signal handler posted to its semaphore.
C17_CallbacksWithinPosts ==
  \A i \in Inst : ncb[i] <= nposts[i]

\* instance i, built and alive, has seen exactly start(), stop(), start(), one call
\* after the other, and no sem_wait of its worker was interrupted by a handler
Restarted(i) ==
  life[i] = "alive" /\ hist[i].phase = "restarted" /\ ~hist[i].overlap /\ ~hist[i].eintr

C19_ExpiryKeepsRunning ==
  [][\A i \in Inst :
       /\ is_running_'[i] # is_running_[i] =>
            \E t \in Callers : cpc[t] = "idle" /\ cpc'[t] # "idle" /\ cobj'[t] = i
       /\ \A t \in Callers : Start(t, i) /\ is_running_[i] =>
            it_value' = it_value /\ curGen' = curGen /\ cpc'[t] = "idle"
       /\ it_value[i] = 0 /\ it_value'[i] > 0 =>
            \E t \in Callers : cobj[t] = i /\ cpc[t] \in {"s_arm", "t_arm"} /\ cpc'[t] = "idle"]_vars

\* the timer fired, its callback ran once and returned, and a second start() has
\* returned since: the instance reads Running and no expiry is pending
C19_Witness ==
  \E i \in Inst : /\ hist[i].phase = "again" /\ ~hist[i].overlap /\ hist[i].lateStart
                  /\ nposts[i] = 1 /\ ncb[i] = 1 /\ wpc[i] = "wait" /\ semaphore_[i] = 0
                  /\ is_running_[i] /\ it_value[i] = 0 /\ sigPending[i] = 0
                  /\ \A t \in Callers : cpc[t] = "idle"

\* C20: when the only call made on an instance is a start() that armTimer has left
\* by throwing, is_running_ reads false as it did before the call.
C20_FailedStartLeavesStopped ==
  \A t \in Callers, i \in Inst :
      cpc[t] = "ArmFailed" /\ cobj[t] = i /\ hist[i].phase = "once" => ~is_running_[i]

====
